---- MODULE Spec2Model ----
(***************************************************************************)
(* Model of src/script.js: a browser page that loads an STL file with a   *)
(* FileReader, shows it in a three.js viewer, estimates volume, mass and   *)
(* cost from the bounding box and builds a mailto link.                    *)
(*                                                                         *)
(* JavaScript runs every handler to completion, so each handler is one     *)
(* action.  A handler is written as a function from the program state (a   *)
(* record with one field per variable) to the state it leaves behind, so   *)
(* that the order of the assignments in the source is kept.  The field     *)
(* threw of that record tells that the code has thrown an exception; the   *)
(* statements after the throwing one are then skipped up to the enclosing  *)
(* catch block or the end of the handler.                                  *)
(*                                                                         *)
(* Numbers are IEEE 754 doubles, computed bit for bit: a mantissa of any   *)
(* size is a sequence of limbs.  Strings that the code parses, trims or    *)
(* prints are sequences of one-character strings.                          *)
(***************************************************************************)
EXTENDS Integers, Sequences, FiniteSets, TLC

\* ---- bounds of the model ----
MaxReaders == 2

\* ---- texts written by the script ----
TARGET_EMAIL == "your-print-service@example.com"
MsgLoadError == "Error loading STL file. Please check the file format."
MsgUpload == "Please upload an STL file to view."
MsgReady == "Ready to generate email draft."

None == <<>>
Some(x) == <<x>>

\* ---- natural numbers of any size: limbs in base 2^14, lowest first ----
\* An operator passes what it has computed on to the next one as a
\* parameter.  The operations on limbs split the range of limbs in two
\* halves, so that the depth of the recursion is the logarithm of the length.
LimbBits == 14
Base == 16384
PowersOfTwo == <<1, 2, 4, 8, 16, 32, 64, 128, 256, 512, 1024, 2048, 4096, 8192>>

Max(a, b) == IF a >= b THEN a ELSE b

RECURSIVE BNFromInt(_)
BNFromInt(n) == IF n = 0 THEN <<>> ELSE <<n % Base>> \o BNFromInt(n \div Base)

\* limb i of a, 0 beyond its length
BNAt(a, i) == IF i <= Len(a) THEN a[i] ELSE 0

\* drop zero limbs at the high end
BNNorm(a) ==
    LET nz == { i \in 1..Len(a) : a[i] # 0 }
    IN  IF nz = {} THEN <<>>
        ELSE SubSeq(a, 1, CHOOSE i \in nz : \A j \in nz : j <= i)

\* the limbs r[1] with the carry r[2] above them
BNCarry(r) == IF r[2] = 0 THEN r[1] ELSE r[1] \o <<r[2]>>
\* the limbs l and h side by side, with the carry out of h
BNJoin(l, h) == <<l[1] \o h[1], h[2]>>

RECURSIVE BNAddSeg(_, _, _, _, _)
\* limbs lo..hi of a + b + c and the carry out of them
BNAddHigh(a, b, mid, hi, l) == BNJoin(l, BNAddSeg(a, b, mid + 1, hi, l[2]))
BNAddSeg(a, b, lo, hi, c) ==
    IF lo = hi
    THEN << <<(BNAt(a, lo) + BNAt(b, lo) + c) % Base>>,
            (BNAt(a, lo) + BNAt(b, lo) + c) \div Base >>
    ELSE BNAddHigh(a, b, (lo + hi) \div 2, hi,
                   BNAddSeg(a, b, lo, (lo + hi) \div 2, c))
BNAdd(a, b) ==
    IF a = <<>> THEN b
    ELSE IF b = <<>> THEN a
    ELSE BNCarry(BNAddSeg(a, b, 1, Max(Len(a), Len(b)), 0))

RECURSIVE BNSubSeg(_, _, _, _, _)
\* limbs lo..hi of a - b - c and the borrow out of them
BNSubHigh(a, b, mid, hi, l) == BNJoin(l, BNSubSeg(a, b, mid + 1, hi, l[2]))
BNSubSeg(a, b, lo, hi, c) ==
    IF lo = hi
    THEN IF a[lo] - BNAt(b, lo) - c < 0
         THEN << <<a[lo] - BNAt(b, lo) - c + Base>>, 1 >>
         ELSE << <<a[lo] - BNAt(b, lo) - c>>, 0 >>
    ELSE BNSubHigh(a, b, (lo + hi) \div 2, hi,
                   BNSubSeg(a, b, lo, (lo + hi) \div 2, c))
\* a - b, for a >= b
BNSub(a, b) ==
    IF a = <<>> THEN <<>> ELSE BNNorm(BNSubSeg(a, b, 1, Len(a), 0)[1])

\* -1, 0 or 1 as a is below, equal to or above b
BNCmpAt(a, b, df) ==
    IF df = {} THEN 0
    ELSE IF \E i \in df : a[i] < b[i] /\ \A j \in df : j <= i THEN -1 ELSE 1
BNCmp(a, b) ==
    IF Len(a) < Len(b) THEN -1
    ELSE IF Len(a) > Len(b) THEN 1
    ELSE BNCmpAt(a, b, { i \in 1..Len(a) : a[i] # b[i] })

RECURSIVE BNMulSmallSeg(_, _, _, _, _)
\* limbs lo..hi of a * k + c and the carry out of them
BNMulSmallHigh(a, k, mid, hi, l) ==
    BNJoin(l, BNMulSmallSeg(a, k, mid + 1, hi, l[2]))
BNMulSmallSeg(a, k, lo, hi, c) ==
    IF lo = hi
    THEN << <<(a[lo] * k + c) % Base>>, (a[lo] * k + c) \div Base >>
    ELSE BNMulSmallHigh(a, k, (lo + hi) \div 2, hi,
                        BNMulSmallSeg(a, k, lo, (lo + hi) \div 2, c))
\* a * k, for 0 <= k <= Base
BNMulSmall(a, k) ==
    IF k = 0 \/ a = <<>> THEN <<>>
    ELSE BNCarry(BNMulSmallSeg(a, k, 1, Len(a), 0))

\* a * Base^k
BNShiftLimbs(a, k) ==
    IF a = <<>> THEN <<>>
    ELSE [i \in 1..(Len(a) + k) |-> IF i <= k THEN 0 ELSE a[i - k]]

RECURSIVE BNMulSeg(_, _, _, _)
\* a times limbs lo..hi of b
BNMulSeg(a, b, lo, hi) ==
    IF lo = hi THEN BNMulSmall(a, b[lo])
    ELSE BNAdd(BNMulSeg(a, b, lo, (lo + hi) \div 2),
               BNShiftLimbs(BNMulSeg(a, b, ((lo + hi) \div 2) + 1, hi),
                            ((lo + hi) \div 2) - lo + 1))
BNMul(a, b) ==
    IF a = <<>> \/ b = <<>> THEN <<>> ELSE BNMulSeg(a, b, 1, Len(b))

\* a pair <<quotient, remainder>> with the quotient normalised
BNQuotRem(r) == <<BNNorm(r[1]), r[2]>>

RECURSIVE BNDivSmallSeg(_, _, _, _, _)
\* quotient limbs lo..hi of a by k, from the high end, r being the
\* remainder of the limbs above hi; and the remainder below lo
BNDivSmallLow(a, k, lo, mid, h) ==
    <<BNDivSmallSeg(a, k, lo, mid, h[2])[1] \o h[1],
      BNDivSmallSeg(a, k, lo, mid, h[2])[2]>>
BNDivSmallSeg(a, k, lo, hi, r) ==
    IF lo = hi
    THEN << <<(r * Base + a[lo]) \div k>>, (r * Base + a[lo]) % k >>
    ELSE BNDivSmallLow(a, k, lo, (lo + hi) \div 2,
                       BNDivSmallSeg(a, k, ((lo + hi) \div 2) + 1, hi, r))
\* <<quotient, remainder>> of a by k, for 0 < k <= Base; the remainder is
\* a plain number
BNDivSmall(a, k) ==
    IF a = <<>> THEN << <<>>, 0 >>
    ELSE BNQuotRem(BNDivSmallSeg(a, k, 1, Len(a), 0))

\* a * 2^n and the whole part of a / 2^n
BNShl(a, n) ==
    BNShiftLimbs(BNMulSmall(a, PowersOfTwo[(n % LimbBits) + 1]), n \div LimbBits)
BNShr(a, n) ==
    IF n \div LimbBits >= Len(a) THEN <<>>
    ELSE BNDivSmall(SubSeq(a, (n \div LimbBits) + 1, Len(a)),
                    PowersOfTwo[(n % LimbBits) + 1])[1]

RECURSIVE SmallBitLen(_)
SmallBitLen(x) == IF x = 0 THEN 0 ELSE 1 + SmallBitLen(x \div 2)
\* number of binary digits of a
BNBitLen(a) ==
    IF a = <<>> THEN 0 ELSE LimbBits * (Len(a) - 1) + SmallBitLen(a[Len(a)])


RECURSIVE BNFindDigit(_, _, _, _)
\* the largest d in lo..hi with q * d <= r (q * lo <= r is given)
BNFindDigit(r, q, lo, hi) ==
    IF lo = hi THEN lo
    ELSE IF BNCmp(BNMulSmall(q, (lo + hi + 1) \div 2), r) <= 0
         THEN BNFindDigit(r, q, (lo + hi + 1) \div 2, hi)
         ELSE BNFindDigit(r, q, lo, ((lo + hi + 1) \div 2) - 1)

RECURSIVE BNDivAt(_, _, _)
\* long division: the quotient limbs 1..i and the remainder
BNDivPut(rest, d) == <<rest[1] \o <<d>>, rest[2]>>
BNDivDigit(r, q, i, qs, d) ==
    BNDivPut(BNDivAt(BNSub(r, BNMulSmall(qs, d)), q, i - 1), d)
BNDivAt(r, q, i) ==
    IF i = 0 THEN << <<>>, r >>
    ELSE BNDivDigit(r, q, i, BNShiftLimbs(q, i - 1),
                    BNFindDigit(r, BNShiftLimbs(q, i - 1), 0, Base - 1))
\* <<quotient, remainder>> of p by q > 0
BNDivMod(p, q) ==
    IF Len(p) < Len(q) THEN << <<>>, p >>
    ELSE BNQuotRem(BNDivAt(p, q, Len(p) - Len(q) + 1))

RECURSIVE BNPow(_, _)
\* k^n for a small k, by squaring
BNPowSquare(k, n, h) == BNMulSmall(BNMul(h, h), IF n % 2 = 1 THEN k ELSE 1)
BNPow(k, n) ==
    IF n = 0 THEN <<1>> ELSE BNPowSquare(k, n, BNPow(k, n \div 2))

\* ---- IEEE 754 doubles: NaN, an infinity, or (-1)^neg * m * 2^e ----
\* A non-zero finite double has 2^52 <= m < 2^53, or e = MinExp and
\* m < 2^52 (subnormal); zero has m = 0 and e = 0.
MantBits == 53
MinExp == -1074
MaxExp == 971

NaN == [k |-> "nan", neg |-> FALSE, m |-> <<>>, e |-> 0]
Infinity(neg) == [k |-> "inf", neg |-> neg, m |-> <<>>, e |-> 0]
Zero(neg) == [k |-> "fin", neg |-> neg, m |-> <<>>, e |-> 0]
IsZero(a) == a.k = "fin" /\ a.m = <<>>

\* the double (-1)^neg * m * 2^e for m < 2^53, or an infinity beyond MaxExp
Finite(neg, m, e) ==
    IF e > MaxExp THEN Infinity(neg)
    ELSE IF m = <<>> THEN Zero(neg)
    ELSE [k |-> "fin", neg |-> neg, m |-> m, e |-> e]
\* the same for m <= 2^53
Renormal(neg, m, e) ==
    IF BNBitLen(m) > MantBits THEN Finite(neg, BNShr(m, 1), e + 1)
    ELSE Finite(neg, m, e)
\* m0 * 2^e is the value cut off below 2^e, c compares what was cut off
\* with half of 2^e: up if it is more, or if it is half and m0 is odd
RoundTie(neg, m0, e, c, sticky) ==
    Renormal(neg,
             IF c > 0 \/ (c = 0 /\ (sticky \/ (m0 # <<>> /\ m0[1] % 2 = 1)))
             THEN BNAdd(m0, <<1>>) ELSE m0,
             e)
RoundCut(neg, q, e, sticky, s, m0) ==
    RoundTie(neg, m0, e + s,
             BNCmp(BNSub(q, BNShl(m0, s)), BNShl(<<1>>, s - 1)), sticky)
\* s: the number of low bits of q that do not fit
RoundShift(neg, q, e, sticky, s) ==
    IF s <= 0 THEN Finite(neg, BNShl(q, 0 - s), e + s)
    ELSE RoundCut(neg, q, e, sticky, s, BNShr(q, s))
\* the double nearest to (-1)^neg * (q + f) * 2^e, ties to even, where
\* 0 <= f < 1 and sticky tells whether f > 0 (then q has 55 bits or more)
RoundToDouble(neg, q, e, sticky) ==
    IF q = <<>> THEN Zero(neg)
    ELSE RoundShift(neg, q, e, sticky,
                    Max(BNBitLen(q) - MantBits, MinExp - e))

\* the double nearest to (-1)^neg * p / q * 2^e
RoundDivided(neg, d, e) == RoundToDouble(neg, d[1], e, d[2] # <<>>)
RoundScaled(neg, p, q, e, k) ==
    RoundDivided(neg, BNDivMod(BNShl(p, k), q), e - k)
RoundQuotient(neg, p, q, e) ==
    RoundScaled(neg, p, q, e,
                Max(0, MantBits + 3 + BNBitLen(q) - BNBitLen(p)))

\* the double of a whole number
Num(n) == RoundToDouble(n < 0, BNFromInt(IF n < 0 THEN 0 - n ELSE n), 0, FALSE)

\* a * b
JsMul(a, b) ==
    IF a.k = "nan" \/ b.k = "nan" THEN NaN
    ELSE IF a.k = "inf" \/ b.k = "inf"
         THEN IF IsZero(a) \/ IsZero(b) THEN NaN
              ELSE Infinity(a.neg # b.neg)
    ELSE RoundToDouble(a.neg # b.neg, BNMul(a.m, b.m), a.e + b.e, FALSE)

\* a / b
JsDiv(a, b) ==
    IF a.k = "nan" \/ b.k = "nan" THEN NaN
    ELSE IF a.k = "inf"
         THEN IF b.k = "inf" THEN NaN ELSE Infinity(a.neg # b.neg)
    ELSE IF b.k = "inf" THEN Zero(a.neg # b.neg)
    ELSE IF IsZero(b)
         THEN IF IsZero(a) THEN NaN ELSE Infinity(a.neg # b.neg)
    ELSE IF IsZero(a) THEN Zero(a.neg # b.neg)
    ELSE RoundQuotient(a.neg # b.neg, a.m, b.m, a.e - b.e)

\* a <= 0: false for NaN
JsLeZero(a) == a.k # "nan" /\ (a.neg \/ IsZero(a))
\* a > 0 and a < 0
JsGtZero(a) == a.k # "nan" /\ ~a.neg /\ ~IsZero(a)
JsLtZero(a) == a.k # "nan" /\ a.neg /\ ~IsZero(a)

\* ---- decimal digits ----
Digits == <<"0","1","2","3","4","5","6","7","8","9">>
DigitVal(c) == (CHOOSE i \in 1..10 : Digits[i] = c) - 1

RECURSIVE BNDigits(_)
\* the decimal digits of a, none for 0
BNDigitsPut(d) == BNDigits(d[1]) \o <<Digits[d[2] + 1]>>
BNDigits(a) == IF a = <<>> THEN <<>> ELSE BNDigitsPut(BNDivSmall(a, 10))

Zeros(n) == [i \in 1..n |-> "0"]
RECURSIVE IntDigits(_)
IntDigits(n) ==
    IF n < 10 THEN <<Digits[n + 1]>>
    ELSE IntDigits(n \div 10) \o <<Digits[(n % 10) + 1]>>

\* the double nearest to s * 10^x, for s > 0
DecimalToDouble(neg, s, x) ==
    IF x >= 0 THEN RoundToDouble(neg, BNMul(s, BNPow(10, x)), 0, FALSE)
    ELSE RoundQuotient(neg, s, BNPow(10, 0 - x), 0)

\* ---- Number::toString (ECMA-262 6.1.6.1.20), radix 10 ----
\* |a| as a fraction <<p, q>>
Fraction(a) ==
    IF a.e >= 0 THEN <<BNShl(a.m, a.e), <<1>> >>
    ELSE <<a.m, BNShl(<<1>>, 0 - a.e)>>
\* the fraction f / 10^j
FractionWith(f, j, x) == IF j >= 0 THEN <<f[1], x>> ELSE <<x, f[2]>>
Scale10(f, j) ==
    FractionWith(f, j, BNMul(IF j >= 0 THEN f[2] ELSE f[1],
                             BNPow(10, IF j >= 0 THEN j ELSE 0 - j)))
\* f >= 10^j
AtLeastPow10(f, j) == BNCmp(Scale10(f, j)[1], Scale10(f, j)[2]) >= 0
RECURSIVE ExponentFrom(_, _)
\* the smallest n from n0 on with f < 10^n
ExponentFrom(f, n) == IF AtLeastPow10(f, n) THEN ExponentFrom(f, n + 1) ELSE n
\* the n with 10^(n-1) <= |a| < 10^n
DecimalExponent(a) ==
    ExponentFrom(Fraction(a), ((BNBitLen(a.m) + a.e - 1) * 30103) \div 100000)
\* digits d of a number below 10^n, laid out as ToString does
Exponent(x) ==
    IF x < 0 THEN <<"e", "-">> \o IntDigits(0 - x)
    ELSE <<"e", "+">> \o IntDigits(x)
Layout(d, kk, n) ==
    IF kk <= n /\ n <= 21 THEN d \o Zeros(n - kk)
    ELSE IF 0 < n /\ n <= 21
         THEN SubSeq(d, 1, n) \o <<".">> \o SubSeq(d, n + 1, kk)
    ELSE IF -6 < n /\ n <= 0 THEN <<"0", ".">> \o Zeros(0 - n) \o d
    ELSE IF kk = 1 THEN d \o Exponent(n - 1)
    ELSE <<d[1], ".">> \o SubSeq(d, 2, kk) \o Exponent(n - 1)
\* without the zeros at the end of ds
Significant(ds, n) ==
    Layout(SubSeq(ds, 1, CHOOSE i \in 1..Len(ds) :
                             /\ ds[i] # "0"
                             /\ \A j \in (i + 1)..Len(ds) : ds[j] = "0"),
           CHOOSE i \in 1..Len(ds) :
               /\ ds[i] # "0"
               /\ \A j \in (i + 1)..Len(ds) : ds[j] = "0",
           n)
\* the integer of k digits may be 10^k: then the digits are those of
\* 10^(k-1) and n is one more
ToStringDigits(n0, k, ds) ==
    IF Len(ds) > k THEN Significant(<<"1">>, n0 + 1) ELSE Significant(ds, n0)
\* the text v * 10^x reads back as a
ReadsBack(a, v, x) == DecimalToDouble(a.neg, v, x) = a
\* Of the integers lo and lo + 1 around |a| / 10^x, the one that reads back
\* as a; if both do, the one nearer to |a| / 10^x, and the even one if they
\* are equally near (c compares the remainder with one half); none if
\* neither does.
DigitsChoice(lo, hi, okLo, okHi, c) ==
    IF okLo /\ okHi
    THEN Some(IF c < 0 \/ (c = 0 /\ (lo = <<>> \/ lo[1] % 2 = 0)) THEN lo ELSE hi)
    ELSE IF okLo THEN Some(lo)
    ELSE IF okHi THEN Some(hi)
    ELSE None
\* d: quotient and remainder of |a| / 10^x as the fraction p / q
DigitsOf(a, x, d, q) ==
    DigitsChoice(d[1], BNAdd(d[1], <<1>>),
                 ReadsBack(a, d[1], x), ReadsBack(a, BNAdd(d[1], <<1>>), x),
                 BNCmp(BNMulSmall(d[2], 2), q))
DigitsAt(a, x, g) == DigitsOf(a, x, BNDivMod(g[1], g[2]), g[2])
RECURSIVE ShortestFrom(_, _, _)
\* the text of the fewest digits, from k digits on, that reads back as a;
\* 17 digits always do
ShortestOr(a, n, k, v) ==
    IF v # None THEN ToStringDigits(n, k, BNDigits(v[1]))
    ELSE ShortestFrom(a, n, k + 1)
ShortestFrom(a, n, k) ==
    ShortestOr(a, n, k, DigitsAt(a, n - k, Scale10(Fraction(a), n - k)))
JsToString(a) ==
    IF a.k = "nan" THEN <<"N","a","N">>
    ELSE IF a.k = "inf"
         THEN (IF a.neg THEN <<"-">> ELSE <<>>)
              \o <<"I","n","f","i","n","i","t","y">>
    ELSE IF IsZero(a) THEN <<"0">>
    ELSE (IF a.neg THEN <<"-">> ELSE <<>>)
         \o ShortestFrom(a, DecimalExponent(a), 1)

\* ---- Number.prototype.toFixed(2) (ECMA-262 21.1.3.3) ----
\* n is the integer nearest to |a| * 100, the larger one at a tie; the text
\* is n with a point before its last two digits.  A value of 10^21 or more
\* is printed by Number::toString.
\* h / 2^(x + 1) rounded, halves up
HalfUp(h, x) ==
    IF BNBitLen(h) <= x THEN <<>>
    ELSE BNShr(BNAdd(h, BNShl(<<1>>, x)), x + 1)
Hundredths(a) ==
    IF a.e >= 0 THEN BNShl(BNMulSmall(a.m, 100), a.e)
    ELSE HalfUp(BNMulSmall(a.m, 200), 0 - a.e)
PointBeforeLastTwo(pad) ==
    SubSeq(pad, 1, Len(pad) - 2) \o <<".">>
        \o SubSeq(pad, Len(pad) - 1, Len(pad))
FixedText(ds) == PointBeforeLastTwo(Zeros(3 - Len(ds)) \o ds)
toFixed2(a) ==
    IF a.k = "nan" THEN <<"N","a","N">>
    ELSE IF a.k = "inf" \/ (~IsZero(a) /\ AtLeastPow10(Fraction(a), 21))
         THEN JsToString(a)
    ELSE (IF JsLtZero(a) THEN <<"-">> ELSE <<>>)
         \o FixedText(BNDigits(Hundredths(a)))

\* ---- white space: WhiteSpace and LineTerminator of ECMA-262 ----
\* A character that has no TLA+ escape is written by its code point.
WhiteSpaceChars ==
    {" ", "\t", "\n", "\r", "\f", "U+000B", "U+00A0", "U+FEFF", "U+1680",
     "U+2000", "U+2001", "U+2002", "U+2003", "U+2004", "U+2005", "U+2006",
     "U+2007", "U+2008", "U+2009", "U+200A", "U+2028", "U+2029", "U+202F",
     "U+205F", "U+3000"}

\* ---- parseFloat (ECMA-262 19.2.4) on a string of characters ----
\* The longest prefix of the trimmed string that is a StrDecimalLiteral:
\* sign, then Infinity or digits with an optional fraction and an optional
\* exponent; NaN when there is none.  The value is the nearest double.
RECURSIVE DigitRun(_, _)
\* number of consecutive digits of s from position i on
DigitRun(s, i) ==
    IF i <= Len(s) /\ (\E d \in 1..10 : Digits[d] = s[i]) THEN 1 + DigitRun(s, i + 1) ELSE 0

RECURSIVE DigitsValue(_, _, _)
\* value of the n digits of s from position i on
DigitsValue(s, i, n) ==
    IF n = 0 THEN <<>>
    ELSE IF n = 1 THEN BNFromInt(DigitVal(s[i]))
    ELSE BNAdd(BNMul(DigitsValue(s, i, n \div 2), BNPow(10, n - (n \div 2))),
               DigitsValue(s, i + (n \div 2), n - (n \div 2)))

\* an exponent beyond MaxDecimalExponent stands for all larger ones
MaxDecimalExponent == 100000
RECURSIVE SmallValue(_, _, _)
\* value of the n digits of s from position i on, as a plain integer
SmallValue(s, i, n) ==
    IF n = 0 THEN 0
    ELSE IF SmallValue(s, i, n - 1) >= MaxDecimalExponent
         THEN MaxDecimalExponent
         ELSE SmallValue(s, i, n - 1) * 10 + DigitVal(s[i + n - 1])

RECURSIVE SkipSpace(_, _)
\* first position from i on that holds no white space
SkipSpace(s, i) ==
    IF i <= Len(s) /\ s[i] \in WhiteSpaceChars THEN SkipSpace(s, i + 1) ELSE i

HasChar(s, i, cs) == i <= Len(s) /\ s[i] \in cs

\* nd: the number of digits from the first non-zero one on
ParseMagnitude(neg, all, exp10, nd) ==
    IF nd - 1 + exp10 >= 309 THEN Infinity(neg)
    ELSE IF nd + exp10 <= -324 THEN Zero(neg)
    ELSE DecimalToDouble(neg, DigitsValue(all, 1, Len(all)), exp10)
\* sig: the positions of the non-zero digits
ParseDigits(neg, all, exp10, sig) ==
    IF sig = {} THEN Zero(neg)
    ELSE ParseMagnitude(neg, all, exp10,
                        Len(all) + 1 - (CHOOSE i \in sig : \A j \in sig : i <= j))
\* all: the digits before and after the point; the value is all * 10^exp10
\* the exponent written at i3, where i4 is the position after the e and its
\* sign; 0 if there is none
ExponentDigits(s, i3, i4) ==
    IF HasChar(s, i3 + 1, {"-"}) THEN 0 - SmallValue(s, i4, DigitRun(s, i4))
    ELSE SmallValue(s, i4, DigitRun(s, i4))
ExponentAt(s, i3) ==
    IF HasChar(s, i3, {"e", "E"})
    THEN ExponentDigits(s, i3, IF HasChar(s, i3 + 1, {"-", "+"})
                               THEN i3 + 2 ELSE i3 + 1)
    ELSE 0
\* i3: the position after the digits and the fraction
ParseExp(s, neg, all, nf, i3) ==
    ParseDigits(neg, all, ExponentAt(s, i3) - nf,
                { i \in 1..Len(all) : all[i] # "0" })
\* ni digits from i1 on, then nf digits after a point
ParseFraction(s, neg, i1, ni, nf) ==
    IF ni + nf = 0 THEN NaN
    ELSE ParseExp(s, neg,
                  SubSeq(s, i1, i1 + ni - 1)
                      \o SubSeq(s, i1 + ni + 1, i1 + ni + nf),
                  nf,
                  IF HasChar(s, i1 + ni, {"."}) THEN i1 + ni + 1 + nf
                  ELSE i1 + ni)
ParseInteger(s, neg, i1, ni) ==
    ParseFraction(s, neg, i1, ni,
                  IF HasChar(s, i1 + ni, {"."}) THEN DigitRun(s, i1 + ni + 1)
                  ELSE 0)
ParseNumber(s, neg, i1) ==
    IF i1 + 7 <= Len(s)
       /\ SubSeq(s, i1, i1 + 7) = <<"I","n","f","i","n","i","t","y">>
    THEN Infinity(neg)
    ELSE ParseInteger(s, neg, i1, DigitRun(s, i1))
ParseSign(s, i0) ==
    ParseNumber(s, HasChar(s, i0, {"-"}),
                IF HasChar(s, i0, {"-", "+"}) THEN i0 + 1 ELSE i0)
parseFloat(s) == ParseSign(s, SkipSpace(s, 1))

\* ---- String.prototype.trim ----
RECURSIVE TrimLeft(_)
TrimLeft(s) ==
    IF s # <<>> /\ Head(s) \in WhiteSpaceChars THEN TrimLeft(Tail(s)) ELSE s
RECURSIVE TrimRight(_)
TrimRight(s) ==
    IF s # <<>> /\ s[Len(s)] \in WhiteSpaceChars
    THEN TrimRight(SubSeq(s, 1, Len(s) - 1)) ELSE s
trim(s) == TrimRight(TrimLeft(s))

\* ---- constants of the script ----
COST_PER_GRAM == 10

\* ---- the <select> of materials ----
\* Each option has a value and a data-density attribute; an option without
\* the attribute yields the string "undefined" at line 195.  The first
\* option is the placeholder with the empty value.
Undefined == <<"u","n","d","e","f","i","n","e","d">>
MaterialOptions ==
    { [value |-> "",       density |-> <<"0">>],
      [value |-> "PLA",    density |-> <<"1",".","2","4">>],
      [value |-> "Resin",  density |-> <<"1",".","2","5">>],
      [value |-> "Custom", density |-> Undefined] }
MaterialNames == { o.value : o \in MaterialOptions }
\* materialInput.selectedOptions: the options whose value is the value of
\* the select
selectedOptions(value) == { o \in MaterialOptions : o.value = value }

\* texts the user can type into the colour field: white space only, a
\* colour name between white space, a name followed by a high surrogate
\* that no low surrogate follows, a low surrogate that follows no high
\* surrogate, and a surrogate pair
ColorTexts ==
    { <<"\t", " ">>, <<" ","r","e","d","\t">>, <<"r","e","d","U+D800">>,
      <<"U+DFFF">>, <<"U+D83D","U+DE00">> }
\* encodeURIComponent throws a URIError for a text with a surrogate that is
\* not part of a pair: a code unit of U+D800..U+DBFF must be followed by
\* one of U+DC00..U+DFFF, and one of U+DC00..U+DFFF must follow one of
\* U+D800..U+DBFF
HexDigits ==
    { "0","1","2","3","4","5","6","7","8","9","A","B","C","D","E","F" }
HighSurrogates ==
    { "U+D" \o a \o b \o c :
        a \in { "8","9","A","B" }, b \in HexDigits, c \in HexDigits }
LowSurrogates ==
    { "U+D" \o a \o b \o c :
        a \in { "C","D","E","F" }, b \in HexDigits, c \in HexDigits }
IsWellFormed(s) ==
    \A i \in 1..Len(s) :
        /\ s[i] \in HighSurrogates =>
              (i < Len(s) /\ s[i + 1] \in LowSurrogates)
        /\ s[i] \in LowSurrogates =>
              (i > 1 /\ s[i - 1] \in HighSurrogates)

\* ---- files the user can choose ----
\* box: the size of the bounding box of the parsed geometry, in mm;
\* a malformed file makes loader.parse throw.
Files ==
    { [name |-> "cube.stl",  size |-> 1048576, ok |-> TRUE,  box |-> <<10, 10, 10>>],
      [name |-> "part.stl",  size |-> 2228224, ok |-> TRUE,  box |-> <<10, 3, 67>>],
      [name |-> "flat.stl",  size |-> 5243,    ok |-> TRUE,  box |-> <<0, 10, 10>>],
      [name |-> "notes.txt", size |-> 0,       ok |-> FALSE, box |-> <<0, 0, 0>>] }
NoFile == [name |-> "", size |-> 0, ok |-> FALSE, box |-> <<0, 0, 0>>]

\* sizes of the viewer container, in pixels
ViewerSizes == { <<800, 600>>, <<400, 400>> }

\* clientWidth / clientHeight
Aspect(sz) == JsDiv(Num(sz[1]), Num(sz[2]))

\* (file.size / 1024 / 1024).toFixed(2)
fileSizeMB(size) == toFixed2(JsDiv(JsDiv(Num(size), Num(1024)), Num(1024)))

\* variant: the estimate without the 0.4 fill factor
boxVolumeCm3NoFill(box) ==
    JsDiv(JsMul(JsMul(Num(box[1]), Num(box[2])), Num(box[3])), Num(1000))

\* the bounding-box estimate of lines 114-116
boxVolumeCm3(box) ==
    LET v == JsDiv(JsMul(JsMul(Num(box[1]), Num(box[2])), Num(box[3])),
                   Num(1000))
    IN  JsMul(v, parseFloat(<<"0", ".", "4">>))

\* lines 208-209
massGrams(volume, density) == JsMul(volume, density)
estimatedCost(mass) == JsMul(mass, Num(COST_PER_GRAM))
\* the texts of the panel (lines 212-215): fixed is volume, mass and cost
\* as toFixed(2) prints them
shownTexts(fixed, densityText) ==
    [volume |-> fixed[1], density |-> densityText, mass |-> fixed[2],
     cost |-> fixed[3]]
estimate(volume, density) ==
    shownTexts([i \in 1..3 |->
                   toFixed2(<<volume,
                              massGrams(volume, density),
                              estimatedCost(massGrams(volume, density))>>[i])],
               JsToString(density))

\* ---- values computed once ----
\* The inputs of the model are finitely many; the results of the numeric
\* functions on them are tabulated, and an argument outside a table is
\* computed by the function itself.
Memo(t, x, v) == IF x \in DOMAIN t THEN t[x] ELSE v
\* f @@ <<>> is f, held as the table of its values
Table(f) == f @@ <<>>
Range(t) == { t[x] : x \in DOMAIN t }
AspectTable == Table([sz \in ViewerSizes |-> Aspect(sz)])
aspectOf(sz) == Memo(AspectTable, sz, Aspect(sz))
FileSizeTable == Table([n \in { f.size : f \in Files } |-> fileSizeMB(n)])
fileSizeOf(n) == Memo(FileSizeTable, n, fileSizeMB(n))
DensityTable ==
    Table([str \in { o.density : o \in MaterialOptions } |-> parseFloat(str)])
densityOf(str) == Memo(DensityTable, str, parseFloat(str))
VolumeTable == Table([b \in { f.box : f \in Files } |-> boxVolumeCm3(b)])
volumeOf(b) == Memo(VolumeTable, b, boxVolumeCm3(b))
EstimateTable ==
    Table([a \in Range(VolumeTable) \X Range(DensityTable) |->
              estimate(a[1], a[2])])
estimateOf(volume, density) ==
    Memo(EstimateTable, <<volume, density>>, estimate(volume, density))

\* ---- state ----
VARIABLES
    scene,            \* 0: undefined; n: the Scene made by the n-th initThreeJS
    sceneMeshes,      \* the model meshes that are children of the scene
    camera,           \* None, or Some([aspect, fitted, maxDim])
    renderer,         \* None, or Some([size])
    canvas,           \* the meshes drawn by the last renderer.render
    controls,         \* 0: undefined; n: the OrbitControls of the n-th init
    currentMesh,      \* 0: undefined or null; otherwise the id of a mesh
    modelVolumeCm3,   \* a double
    loadedFileName,
    fileInfo,         \* textContent: [name, tail, mb]
    viewerMessage,    \* textContent
    viewerContainer,  \* [size, content]
    colorInput,       \* [value, disabled]
    materialInput,    \* [value, disabled]
    costResult,       \* innerHTML: [kind, volume, material, density, mass, cost]
    emailLink,        \* [disabled, href]; href is None or Some(mail draft)
    emailStatus,      \* textContent
    rafPending,       \* animation-frame callbacks requested and not yet run
    resizeListeners,  \* the 'resize' listeners of window
    slot,             \* per id: a pending FileReader, or the mesh it produced
    lastSelected,     \* history: id of the most recent file selection
    initCount,        \* history: number of runs of initThreeJS
    lastHandler       \* history: the last file or input handler that ran

vars == <<scene, sceneMeshes, camera, renderer, canvas, controls, currentMesh,
          modelVolumeCm3, loadedFileName, fileInfo, viewerMessage,
          viewerContainer, colorInput, materialInput, costResult, emailLink,
          emailStatus, rafPending, resizeListeners, slot, lastSelected,
          initCount, lastHandler>>

Ids == 1..MaxReaders
FreeSlot == [state |-> "free", file |-> NoFile]

\* the program state as one record, at the start of a handler
Cur ==
    [scene |-> scene, sceneMeshes |-> sceneMeshes, camera |-> camera,
     renderer |-> renderer, canvas |-> canvas, controls |-> controls,
     currentMesh |-> currentMesh, modelVolumeCm3 |-> modelVolumeCm3,
     loadedFileName |-> loadedFileName, fileInfo |-> fileInfo,
     viewerMessage |-> viewerMessage, viewerContainer |-> viewerContainer,
     colorInput |-> colorInput, materialInput |-> materialInput,
     costResult |-> costResult, emailLink |-> emailLink,
     emailStatus |-> emailStatus, rafPending |-> rafPending,
     resizeListeners |-> resizeListeners, slot |-> slot,
     lastSelected |-> lastSelected, initCount |-> initCount,
     lastHandler |-> lastHandler, threw |-> FALSE]

\* the state a handler leaves behind becomes the next state
Commit(s) ==
    /\ scene' = s.scene
    /\ sceneMeshes' = s.sceneMeshes
    /\ camera' = s.camera
    /\ renderer' = s.renderer
    /\ canvas' = s.canvas
    /\ controls' = s.controls
    /\ currentMesh' = s.currentMesh
    /\ modelVolumeCm3' = s.modelVolumeCm3
    /\ loadedFileName' = s.loadedFileName
    /\ fileInfo' = s.fileInfo
    /\ viewerMessage' = s.viewerMessage
    /\ viewerContainer' = s.viewerContainer
    /\ colorInput' = s.colorInput
    /\ materialInput' = s.materialInput
    /\ costResult' = s.costResult
    /\ emailLink' = s.emailLink
    /\ emailStatus' = s.emailStatus
    /\ rafPending' = s.rafPending
    /\ resizeListeners' = s.resizeListeners
    /\ slot' = s.slot
    /\ lastSelected' = s.lastSelected
    /\ initCount' = s.initCount
    /\ lastHandler' = s.lastHandler

\* a statement throws: the rest of the function is skipped
Throw(s) == [s EXCEPT !.threw = TRUE]
\* a catch block takes the exception
Caught(s) == [s EXCEPT !.threw = FALSE]

\* ---- contents of the cost panel and of the mail link ----
CostPrompt ==
    [kind |-> "prompt", volume |-> <<>>, material |-> "", density |-> <<>>,
     mass |-> <<>>, cost |-> <<>>]
CostInvalid == [CostPrompt EXCEPT !.kind = "invalid"]
LinkDisabled == [disabled |-> TRUE, href |-> None]

\* ---- renderer.render(scene, camera): draws the children of the scene ----
\* It is a TypeError while renderer is undefined.
render(s) ==
    IF s.renderer = None THEN Throw(s) ELSE [s EXCEPT !.canvas = s.sceneMeshes]

\* ---- animate (lines 73-78) ----
animate(s) ==
    IF s.renderer = None THEN s
    ELSE render([s EXCEPT !.rafPending = @ + 1])

\* ---- initThreeJS (lines 26-64) ----
\* webgl: whether the browser gives a WebGL context; without one the
\* constructor of line 40 throws, after the scene and the camera were made.
\* The two lights are fixed children of every scene and are left out of
\* sceneMeshes.  setSize leaves the new canvas blank until the first render.
\* addEventListener ignores a listener that is registered already.
\* lines 27-37
newSceneAndCamera(s, n) ==
    [s EXCEPT
       !.initCount = n,
       !.scene = n,
       !.sceneMeshes = {},
       !.camera = Some([aspect |-> aspectOf(s.viewerContainer.size),
                        fitted |-> FALSE, maxDim |-> 0])]
\* lines 40-63
newRenderer(s, webgl) ==
    IF ~webgl THEN Throw(s)
    ELSE [animate([s EXCEPT
                     !.renderer = Some([size |-> s.viewerContainer.size]),
                     !.canvas = {},
                     !.viewerContainer.content = "canvas",
                     !.controls = s.scene])
            EXCEPT !.resizeListeners = @ \cup {"onWindowResize"}]
initThreeJS(s, webgl) ==
    newRenderer(newSceneAndCamera(s, s.initCount + 1), webgl)

\* ---- onWindowResize (lines 66-71) ----
onWindowResize(s) ==
    IF s.camera = None \/ s.renderer = None THEN s
    ELSE [s EXCEPT
            !.camera = Some([s.camera[1] EXCEPT
                               !.aspect = aspectOf(s.viewerContainer.size)]),
            !.renderer = Some([size |-> s.viewerContainer.size]),
            !.canvas = {}]

\* ---- fitCameraToObject (lines 153-182) ----
\* The geometry was centred, so the centre of the box is the origin; the
\* camera distance and the far plane are fixed multiples of the largest
\* side, which is what the camera record keeps.  The controls are used
\* only if they exist (line 178).
fitCameraToObject(s, box) ==
    [s EXCEPT !.camera = Some([s.camera[1] EXCEPT
                                 !.fitted = TRUE,
                                 !.maxDim = Max(box[1], Max(box[2], box[3]))])]

\* ---- updateCostAndEmail (lines 185-236) ----
\* Without a selected option, selectedOptions[0] is undefined and line 195
\* is a TypeError.
\* line 197
colorText(value) ==
    IF trim(value) # <<>> THEN trim(value)
    ELSE <<"N","o","t"," ","s","p","e","c","i","f","i","e","d">>
\* lines 220-235: the draft holds the colour, and encodeURIComponent
\* throws for a colour that is not well formed, before the link is touched
mailDraft(s, materialName, color, shown) ==
    IF ~IsWellFormed(color) THEN Throw(s)
    ELSE [s EXCEPT
            !.emailLink = [disabled |-> FALSE,
                           href |-> Some([to |-> TARGET_EMAIL,
                                          subjectName |-> s.loadedFileName,
                                          fileName |-> s.loadedFileName,
                                          color |-> color,
                                          material |-> materialName,
                                          volume |-> shown.volume,
                                          mass |-> shown.mass,
                                          cost |-> shown.cost,
                                          attachName |-> s.loadedFileName])],
            !.emailStatus = MsgReady]
\* lines 211-235: the panel is written first
showEstimate(s, materialName, color, shown) ==
    mailDraft([s EXCEPT
                 !.costResult = [kind |-> "estimate", volume |-> shown.volume,
                                 material |-> materialName,
                                 density |-> shown.density,
                                 mass |-> shown.mass, cost |-> shown.cost]],
              materialName, color, shown)
\* lines 199-235
quoteFor(s, materialName, density, color) ==
    IF materialName = "" \/ JsLeZero(density)
    THEN [s EXCEPT !.costResult = CostInvalid, !.emailLink = LinkDisabled,
                   !.emailStatus = ""]
    ELSE showEstimate(s, materialName, color,
                      estimateOf(s.modelVolumeCm3, density))
\* lines 195-235
quoteForOption(s, selectedOption) ==
    quoteFor(s, selectedOption.value, densityOf(selectedOption.density),
             colorText(s.colorInput.value))
updateCostAndEmail(s) ==
    IF s.currentMesh = 0 \/ JsLeZero(s.modelVolumeCm3)
    THEN [s EXCEPT !.costResult = CostPrompt, !.emailLink = LinkDisabled,
                   !.emailStatus = ""]
    ELSE IF selectedOptions(s.materialInput.value) = {} THEN Throw(s)
    ELSE quoteForOption(s, CHOOSE o \in selectedOptions(s.materialInput.value) : TRUE)

\* ---- resetState (lines 239-268) ----
\* With a scene and a mesh but no renderer, line 248 throws after the mesh
\* was removed and disposed of, and nothing below it runs.
\* lines 242-245
removeCurrentMesh(s) ==
    [s EXCEPT !.sceneMeshes = @ \ {s.currentMesh},
              !.slot[s.currentMesh] = FreeSlot,
              !.currentMesh = 0]
\* lines 250-267
resetInputs(s) ==
    IF s.threw THEN s
    ELSE [s EXCEPT
            !.viewerMessage = IF s.renderer = None THEN MsgUpload ELSE "",
            !.colorInput = [value |-> <<>>, disabled |-> TRUE],
            !.materialInput = [value |-> "", disabled |-> TRUE],
            !.modelVolumeCm3 = Zero(FALSE),
            !.loadedFileName = "",
            !.costResult = CostPrompt,
            !.emailLink = LinkDisabled,
            !.emailStatus = ""]
resetState(s) ==
    resetInputs(IF s.scene # 0 /\ s.currentMesh # 0
                THEN render(removeCurrentMesh(s)) ELSE s)

\* ---- enableInputsAndCalc (lines 270-273) ----
enableInputsAndCalc(s) ==
    [s EXCEPT !.colorInput.disabled = FALSE, !.materialInput.disabled = FALSE]

\* ids of no pending FileReader and of no live mesh
FreeIdsOf(s) == { i \in DOMAIN s.slot : s.slot[i].state = "free" }
\* the FileReader of a new selection takes the lowest unused id
NewIdOf(s) == CHOOSE i \in FreeIdsOf(s) : \A j \in FreeIdsOf(s) : i <= j

\* ---- fileInput 'change' handler (lines 83-150) ----
\* An exception of resetState ends the handler before the FileReader is
\* made.
\* lines 94-149
startReader(s, file) ==
    IF s.threw THEN [s EXCEPT !.lastHandler = "changeThrew"]
    ELSE [s EXCEPT !.slot[NewIdOf(s)] = [state |-> "pending", file |-> file],
                   !.lastSelected = NewIdOf(s),
                   !.lastHandler = "change"]
fileInputChange(s, file) ==
    startReader(resetState([s EXCEPT
                              !.loadedFileName = file.name,
                              !.fileInfo = [name |-> file.name, tail |-> "MB",
                                            mb |-> fileSizeOf(file.size)],
                              !.viewerMessage = "Loading model..."]),
                file)

\* ---- reader.onload, the catch block (lines 134-139) ----
onloadCatch(s) ==
    resetState([s EXCEPT
                  !.viewerMessage = MsgLoadError,
                  !.fileInfo = [name |-> s.loadedFileName,
                                tail |-> "- Load Error", mb |-> <<>>]])

\* ---- reader.onload, the try block after loader.parse (lines 99-132) ----
\* lines 124-125
addMesh(s, id) ==
    [s EXCEPT !.currentMesh = id,
              !.slot[id].state = "mesh",
              !.sceneMeshes = @ \cup {id}]
\* lines 105-132
onloadModel(s, id, box) ==
    IF s.threw THEN s
    ELSE updateCostAndEmail(
           enableInputsAndCalc(
             fitCameraToObject(
               addMesh([s EXCEPT !.modelVolumeCm3 = volumeOf(box)], id),
               box)))
onloadTry(s, id, box, webgl) ==
    onloadModel(IF s.scene = 0 THEN initThreeJS(s, webgl)
                ELSE [s EXCEPT !.viewerMessage = ""],
                id, box)

\* ---- reader.onload (lines 95-140) ----
\* The catch block takes every exception of the try block; a geometry that
\* did not become the current mesh is dropped.
dropGeometry(s, id) ==
    IF s.currentMesh = id THEN s ELSE [s EXCEPT !.slot[id] = FreeSlot]
onloadEnd(tried, id) ==
    IF tried.threw
    THEN [onloadCatch(Caught(dropGeometry(tried, id)))
            EXCEPT !.lastHandler = "loadError"]
    ELSE [tried EXCEPT !.lastHandler = "load"]
readerOnload(s, id, webgl) ==
    onloadEnd(IF s.slot[id].file.ok
              THEN onloadTry(s, id, s.slot[id].file.box, webgl)
              ELSE Throw(s),
              id)

\* ---- reader.onerror (lines 142-147) ----
readerOnerror(s, id) ==
    [resetState([s EXCEPT
                   !.slot[id] = FreeSlot,
                   !.viewerMessage = "Error reading file.",
                   !.fileInfo = [name |-> s.loadedFileName,
                                 tail |-> "- Read Error", mb |-> <<>>]])
       EXCEPT !.lastHandler = "readError"]

\* ---- the state after the script has run (lines 9-23, 81, 276-280) ----
Initial(sz) ==
    resetState(
      [scene |-> 0, sceneMeshes |-> {}, camera |-> None, renderer |-> None,
       canvas |-> {}, controls |-> 0, currentMesh |-> 0,
       modelVolumeCm3 |-> Zero(FALSE),
       loadedFileName |-> "",
       fileInfo |-> [name |-> "", tail |-> "", mb |-> <<>>],
       viewerMessage |-> "",
       viewerContainer |-> [size |-> sz, content |-> "message"],
       colorInput |-> [value |-> <<>>, disabled |-> FALSE],
       materialInput |-> [value |-> "", disabled |-> FALSE],
       costResult |-> CostPrompt,
       emailLink |-> [disabled |-> FALSE, href |-> None],
       emailStatus |-> "", rafPending |-> 0, resizeListeners |-> {},
       slot |-> [i \in Ids |-> FreeSlot],
       lastSelected |-> 0, initCount |-> 0, lastHandler |-> "start",
       threw |-> FALSE])

StateIs(s) ==
    /\ scene = s.scene
    /\ sceneMeshes = s.sceneMeshes
    /\ camera = s.camera
    /\ renderer = s.renderer
    /\ canvas = s.canvas
    /\ controls = s.controls
    /\ currentMesh = s.currentMesh
    /\ modelVolumeCm3 = s.modelVolumeCm3
    /\ loadedFileName = s.loadedFileName
    /\ fileInfo = s.fileInfo
    /\ viewerMessage = s.viewerMessage
    /\ viewerContainer = s.viewerContainer
    /\ colorInput = s.colorInput
    /\ materialInput = s.materialInput
    /\ costResult = s.costResult
    /\ emailLink = s.emailLink
    /\ emailStatus = s.emailStatus
    /\ rafPending = s.rafPending
    /\ resizeListeners = s.resizeListeners
    /\ slot = s.slot
    /\ lastSelected = s.lastSelected
    /\ initCount = s.initCount
    /\ lastHandler = s.lastHandler

\* the viewer container is 800 x 600 pixels when the page opens
Init == StateIs(Initial(<<800, 600>>))

\* ---- actions: one per event the browser can deliver ----
\* the user picks a file (the model keeps at most MaxReaders readers and
\* meshes alive)
FileInputChange ==
    \E file \in Files :
        /\ resetState(Cur).threw \/ FreeIdsOf(resetState(Cur)) # {}
        /\ Commit(fileInputChange(Cur, file))

\* the user cancels the file dialog: event.target.files is empty (lines 84-87)
FileInputChangeNoFile ==
    /\ lastHandler # "changeEmpty"
    /\ Commit([Cur EXCEPT !.lastHandler = "changeEmpty"])

\* a pending read completes; the browser does or does not give a WebGL
\* context to a renderer that is made
ReaderOnload ==
    \E id \in Ids, webgl \in BOOLEAN :
        /\ slot[id].state = "pending"
        /\ Commit(readerOnload(Cur, id, webgl))

\* a pending read fails
ReaderOnerror ==
    \E id \in Ids :
        /\ slot[id].state = "pending"
        /\ Commit(readerOnerror(Cur, id))

\* the user edits the colour field: 'input' listener (line 276); an
\* exception of a listener is not caught, and the page stays as the listener
\* left it
ColorInputEvent ==
    \E text \in ColorTexts :
        /\ ~colorInput.disabled
        /\ text # colorInput.value
        /\ Commit([updateCostAndEmail([Cur EXCEPT !.colorInput.value = text])
                     EXCEPT !.lastHandler = "color"])

\* the user picks a material: 'change' listener (line 277)
MaterialChangeEvent ==
    \E name \in MaterialNames :
        /\ ~materialInput.disabled
        /\ name # materialInput.value
        /\ Commit([updateCostAndEmail([Cur EXCEPT !.materialInput.value = name])
                     EXCEPT !.lastHandler = "material"])

\* the browser runs a requested animation-frame callback
AnimationFrame ==
    /\ rafPending > 0
    /\ Commit(animate([Cur EXCEPT !.rafPending = @ - 1]))

\* the window fires 'resize', whether or not the viewer's size changed: its
\* 'resize' listeners run
WindowResize ==
    \E sz \in ViewerSizes :
        /\ Commit(IF "onWindowResize" \in resizeListeners
                  THEN onWindowResize([Cur EXCEPT !.viewerContainer.size = sz])
                  ELSE [Cur EXCEPT !.viewerContainer.size = sz])

Next ==
    \/ FileInputChange
    \/ FileInputChangeNoFile
    \/ ReaderOnload
    \/ ReaderOnerror
    \/ ColorInputEvent
    \/ MaterialChangeEvent
    \/ AnimationFrame
    \/ WindowResize

Spec == Init /\ [][Next]_vars

\* ======================= properties =======================

FileNames == { f.name : f \in Files }
ErrorTails == {"- Load Error", "- Read Error"}
\* the file a mesh was parsed from
MeshFile(id) == slot[id].file
\* the density of the selected material, as the script reads it
SelectedDensity ==
    DensityTable[(CHOOSE o \in MaterialOptions :
                      o.value = materialInput.value).density]
\* a text that toFixed prints for a number >= 0
IsNonNegativeText(t) == t # <<>> /\ t # <<"N","a","N">> /\ Head(t) # "-"

\* C1: after the onload handler has caught an error, viewerMessage holds the
\* load-error text and fileInfo ends in "- Load Error".
C1_ErrorMessageShown ==
    lastHandler = "loadError" =>
        /\ viewerMessage = MsgLoadError
        /\ fileInfo.tail = "- Load Error"

\* C2: the volume is never negative, and an estimate that is displayed shows
\* a volume, a mass and a cost that are numbers >= 0.
C2_NonNegative ==
    /\ modelVolumeCm3.k # "nan" /\ ~JsLtZero(modelVolumeCm3)
    /\ (costResult.kind = "estimate" /\ ~emailLink.disabled) =>
          \A t \in {costResult.volume, costResult.mass, costResult.cost} :
              IsNonNegativeText(t)

\* 0.4 * (x * y * z) / 1000 for the box of each file
C3_Volume ==
    Table([b \in { f.box : f \in Files } |->
              JsMul(JsDiv(Num(4), Num(10)),
                    JsDiv(Num(b[1] * b[2] * b[3]), Num(1000)))])
\* volume v, mass v * d and cost v * d * 10, as toFixed(2) prints them
C3_Texts(v, d) ==
    Table([i \in 1..3 |->
              toFixed2(<<v, JsMul(v, d), JsMul(JsMul(v, d), Num(10))>>[i])])
\* for each such volume and each material
C3_Quote ==
    Table([a \in Range(C3_Volume) \X MaterialNames |->
              C3_Texts(a[1], parseFloat((CHOOSE o \in MaterialOptions :
                                             o.value = a[2]).density))])
\* the panel shows the texts, and so does the mail draft when the colour
\* can be encoded
C3_Shows(texts) ==
    /\ costResult.volume = texts[1]
    /\ costResult.mass = texts[2]
    /\ costResult.cost = texts[3]
    /\ costResult.material = materialInput.value
    /\ IsWellFormed(colorInput.value) =>
          /\ emailLink.href # None
          /\ emailLink.href[1].volume = texts[1]
          /\ emailLink.href[1].mass = texts[2]
          /\ emailLink.href[1].cost = texts[3]
          /\ emailLink.href[1].material = materialInput.value

\* C3: with a mesh loaded, the volume is 0.4 * (x * y * z) / 1000 of its
\* bounding box; an estimate displayed for a material of density d > 0
\* shows that volume, the mass volume * d and the cost mass * 10, whatever
\* the colour text and the earlier loads, and the mail draft shows the same
\* figures whenever the colour text is one that encodeURIComponent takes.
C3_Formulas ==
    /\ currentMesh # 0 =>
          modelVolumeCm3 = C3_Volume[MeshFile(currentMesh).box]
    /\ (costResult.kind = "estimate" /\ JsGtZero(SelectedDensity)) =>
          C3_Shows(Memo(C3_Quote, <<modelVolumeCm3, materialInput.value>>,
                        <<>>))

\* C3 witness: part.stl (10 x 3 x 67 mm) shown with Resin (1.25): the volume
\* is the double 0.8039999999999999, the mass the double next below 1.005
\* and the cost 10.049999999999999, printed 0.80, 1.00 and 10.05; the
\* colour typed in is one that encodeURIComponent rejects, and the mesh of
\* an earlier load is still in the scene.
C3_Witness ==
    /\ currentMesh # 0
    /\ MeshFile(currentMesh).name = "part.stl"
    /\ materialInput.value = "Resin"
    /\ costResult.kind = "estimate"
    /\ costResult.volume = <<"0", ".", "8", "0">>
    /\ costResult.mass = <<"1", ".", "0", "0">>
    /\ costResult.cost = <<"1", "0", ".", "0", "5">>
    /\ ~IsWellFormed(colorInput.value)
    /\ Cardinality(sceneMeshes) = 2

\* C4: an enabled mail link names the file of the loaded model in its
\* subject and body, and an error text in fileInfo names a file.
C4_DraftNamesFile ==
    /\ emailLink.href # None =>
          /\ currentMesh # 0
          /\ emailLink.href[1].subjectName = MeshFile(currentMesh).name
          /\ emailLink.href[1].fileName = MeshFile(currentMesh).name
          /\ emailLink.href[1].attachName = MeshFile(currentMesh).name
    /\ fileInfo.tail \in ErrorTails => fileInfo.name \in FileNames

\* the viewer before initThreeJS has run, and after it has run to its end
C5_NotInitialised ==
    /\ scene = 0 /\ camera = None /\ renderer = None /\ controls = 0
    /\ rafPending = 0 /\ resizeListeners = {}
C5_Initialised ==
    /\ scene = 1 /\ camera # None /\ renderer # None /\ controls = 1
    /\ rafPending = 1 /\ resizeListeners = {"onWindowResize"}

\* C5: initThreeJS runs at most once; before it has run there is no scene,
\* camera, renderer, controls, resize listener or animation frame; once it
\* has run, the scene, camera, renderer and controls are the ones it made,
\* the resize listener is registered and one animation frame is pending.
C5_InitOnce ==
    /\ initCount \in {0, 1}
    /\ initCount = 0 => C5_NotInitialised
    /\ initCount = 1 => C5_Initialised

\* C6: the scene holds at most one model mesh, and it is currentMesh.
C6_OneMesh ==
    /\ Cardinality(sceneMeshes) <= 1
    /\ sceneMeshes # {} => sceneMeshes = {currentMesh}

\* C7: a displayed mesh comes from the most recent file selection, which is
\* the file named in fileInfo.
C7_LatestFile ==
    currentMesh # 0 =>
        /\ currentMesh = lastSelected
        /\ fileInfo.name = MeshFile(currentMesh).name

\* C8: the mail link has an href exactly when it is not disabled, and that
\* exactly when there is a mesh, a positive volume, a material name and a
\* density > 0.
C8_LinkIffQuote ==
    /\ (emailLink.href # None) <=> ~emailLink.disabled
    /\ (~emailLink.disabled) <=>
          /\ currentMesh # 0
          /\ JsGtZero(modelVolumeCm3)
          /\ materialInput.value # ""
          /\ JsGtZero(SelectedDensity)

\* C9: after a failed load the page is empty again (no mesh, volume 0,
\* inputs cleared and disabled, the upload prompt, the link disabled), and
\* the inputs are enabled only while there is a current mesh.
C9_EmptyAfterFailure ==
    /\ lastHandler \in {"loadError", "readError"} =>
          /\ currentMesh = 0
          /\ sceneMeshes = {}
          /\ IsZero(modelVolumeCm3)
          /\ colorInput = [value |-> <<>>, disabled |-> TRUE]
          /\ materialInput = [value |-> "", disabled |-> TRUE]
          /\ costResult = CostPrompt
          /\ emailLink = LinkDisabled
    /\ (~colorInput.disabled \/ ~materialInput.disabled) => currentMesh # 0
====
